---- MODULE Spec2Model ----
(***************************************************************************)
(* Model of PerformanceTestService (services/performanceTestService.ts):   *)
(* runPerformanceTest, executeLoadTest with its makeRequest workers,       *)
(* executeEndpointRequest, and the PerformanceTest document it saves.      *)
(*                                                                         *)
(* JavaScript runs each continuation to completion: a step of the model is *)
(* one continuation, from the event that resumes it (a call, a settled     *)
(* save, a settled HTTP request, a fired timer) to the next await that     *)
(* suspends.  Date.now() is the variable now; it advances between          *)
(* continuations only.  A save() either writes the whole document to the   *)
(* store and resolves, or rejects and leaves the store as it was.          *)
(*                                                                         *)
(* Spec is one call of runPerformanceTest.  SpecLive is that call with the *)
(* event loop's fairness, SpecTwoRuns is two overlapping calls, and        *)
(* SpecAggregate, SpecRequest and SpecHistory apply the statistics,        *)
(* executeEndpointRequest and getTestHistory to every input in the bounds. *)
(***************************************************************************)
EXTENDS Integers, Sequences, FiniteSets, TLC

\* ---------------------------------------------------------------- bounds
\* Largest config.concurrentUsers tried (and so the largest worker pool).
MaxUsers == 2
\* The clock stops advancing after this many ticks.
MaxTicks == 3

\* Longest responseTimes and largest failedRequests given to the statistics.
MaxSamples == 5
MaxFailed == 2

\* Largest number of documents of earlier runs in the collection.
MaxDocuments == 52

\* ------------------------------------------------------ program constants
\* sleep(100): the pacing delay of a worker, in ms.
PacingMs == 100
\* endTime = startTime + duration * 1000.
MsPerSecond == 1000
\* schema: config.concurrentUsers { min: 1 }, config.duration { min: 1 }.
MinConcurrentUsers == 1
MinDuration == 1
\* getTestHistory: .limit(50).
HistoryLimit == 50

\* Date.now() is observed at multiples of five pacing delays.
TickMs == 5 * PacingMs
MaxTime == MaxTicks * TickMs

Workers == 1..MaxUsers

\* config values a caller may pass.  concurrentUsers is the whole part of the
\* number and usersFractional says that one half is added to it (1.5 users).
Configs ==
    [concurrentUsers : 0..MaxUsers,
     usersFractional : BOOLEAN,
     duration        : {0, 1},
     rampUpTime      : {0, 1}]

\* Latencies (ms) and durations (s) given to the statistics.
Latencies == {10, 20, 30, 40, 50}
AggregateDurations == {MinDuration, MinDuration + 1}

\* What the HTTP transport can do with one request.
Outcomes == {"2xx", "non2xx", "transport"}

\* projectId values, and the one runPerformanceTest is called with.
Projects == {"p1", "p2"}
RunProject == "p1"

\* IApiEndpoint: method, url, and the optional headers, queryParams and body
\* (<<>> when the field is undefined, <<v>> when it is the object v).
Methods == {"GET", "POST", "PUT", "PATCH", "DELETE"}
Endpoints ==
    [method      : Methods,
     url         : {"http://a/x", "http://b/y"},
     headers     : {<<>>, <<{}>>, <<{<<"accept", "json">>}>>},
     queryParams : {<<>>, <<{<<"page", "1">>}>>},
     body        : {<<>>, <<{<<"name", "x">>}>>, <<{<<"name", "y">>}>>}]

\* The endpoint argument of the run.
RunEndpoint ==
    [method |-> "POST", url |-> "http://a/x", headers |-> <<>>,
     queryParams |-> <<>>, body |-> <<{<<"name", "x">>}>>]

VARIABLES
    pc,                 \* where runPerformanceTest is
    config,             \* the config argument
    testRecord,         \* the document in memory
    store,              \* the document in the collection
    now,                \* Date.now()
    endTime,            \* executeLoadTest's deadline
    workers,            \* each makeRequest(): where it is, and its requestStart / timer
    responseTimes,      \* executeLoadTest's accumulators
    totalRequests,
    successfulRequests,
    failedRequests,
    caught,             \* the error the catch block received
    thrown,             \* the error runPerformanceTest rejected with
    history,            \* what happened in the run (not program state)
    endpoint,           \* the endpoint argument
    request,            \* the config of the last axios(config) call
    collection,         \* the documents of the other runs in the collection
    found,              \* the last getTestHistory call and what it returned
    other               \* a second call of runPerformanceTest: its locals

\* What belongs to one call of runPerformanceTest.
runVars == <<pc, config, testRecord, store, now, endTime, workers, responseTimes,
             totalRequests, successfulRequests, failedRequests, caught, thrown, history>>

\* What no step of a run changes.
outside == <<endpoint, collection, found, other>>

vars == <<runVars, request, outside>>

\* ------------------------------------------------------------- numbers
\* A JavaScript number that need not be an integer: num/den in lowest terms.
\* den = 0 stands for NaN (num = 0) and for Infinity (num = 1).
RECURSIVE Gcd(_, _)
Gcd(a, b) == IF b = 0 THEN a ELSE Gcd(b, a % b)

NaN == [num |-> 0, den |-> 0]
Infinity == [num |-> 1, den |-> 0]
Num(n) == [num |-> n, den |-> 1]

\* a / b of two non-negative integers.
Div(a, b) ==
    IF b = 0
    THEN (IF a = 0 THEN NaN ELSE Infinity)
    ELSE LET g == Gcd(a, b) IN [num |-> a \div g, den |-> b \div g]

\* x * k for an integer k >= 0 (NaN and Infinity stay what they are).
Times(x, k) == IF x.den = 0 THEN x ELSE Div(x.num * k, x.den)

\* Changed: the || 0 is missing.
OrZeroMissing(x) == x

\* x || 0 : NaN and 0 are falsy.
OrZero(x) == IF x = NaN \/ x.num = 0 THEN Num(0) ELSE x

\* ---------------------------------------------------------- statistics
\* Changed: the comparator puts every element first, whatever its value.
InsertInFront(x, s) == <<x>> \o s

RECURSIVE Insert(_, _)
Insert(x, s) ==
    IF s = <<>> THEN <<x>>
    ELSE IF x <= Head(s) THEN <<x>> \o s
    ELSE <<Head(s)>> \o Insert(x, Tail(s))

\* Changed: the array is used as the workers filled it.
Unsorted(s) == s

\* responseTimes.sort((a, b) => a - b)
RECURSIVE Sort(_)
Sort(s) == IF s = <<>> THEN <<>> ELSE Insert(Head(s), Sort(Tail(s)))

\* responseTimes.reduce((a, b) => a + b, 0)
RECURSIVE Sum(_)
Sum(s) == IF s = <<>> THEN 0 ELSE Head(s) + Sum(Tail(s))

Max(a, b) == IF a >= b THEN a ELSE b

\* Changed: Math.floor in place of Math.ceil.
FloorPercent(p, n) == (p * n) \div 100

\* Math.ceil((p / 100) * n) for integers p, n >= 0.
CeilPercent(p, n) == (p * n + 99) \div 100

\* percentile(arr, p): arr is 1-indexed here, the code's index is 0-based.
percentile(arr, p) ==
    IF Len(arr) = 0 THEN 0
    ELSE LET index == CeilPercent(p, Len(arr)) - 1
         IN arr[Max(0, index) + 1]

\* sortedResponseTimes[0] || 0 and sortedResponseTimes[length - 1] || 0.
ElementOrZero(arr, i) == IF i >= 1 /\ i <= Len(arr) THEN arr[i] ELSE 0

\* Changed: the sum of the latencies is divided by the number of all requests.
AverageOverTotal(times) == OrZero(Div(Sum(times), totalRequests))

\* responseTimes.reduce((a, b) => a + b, 0) / responseTimes.length || 0
AverageResponseTime(times) == OrZero(Div(Sum(times), Len(times)))

\* totalRequests / config.duration
RequestsPerSecond(total, duration) == Div(total, duration)

\* Changed: the ratio is not multiplied by 100.
ErrorRateAsFraction(failed, total) == OrZero(Div(failed, total))

\* (failedRequests / totalRequests) * 100 || 0
ErrorRate(failed, total) == OrZero(Times(Div(failed, total), 100))

\* The statistics of executeLoadTest, from the accumulators.
Statistics(times, total, successful, failed, duration) ==
    LET sortedResponseTimes == Sort(times)
    IN [totalRequests       |-> total,
        successfulRequests  |-> successful,
        failedRequests      |-> failed,
        averageResponseTime |-> AverageResponseTime(times),
        minResponseTime     |-> ElementOrZero(sortedResponseTimes, 1),
        maxResponseTime     |-> ElementOrZero(sortedResponseTimes, Len(sortedResponseTimes)),
        requestsPerSecond   |-> RequestsPerSecond(total, duration),
        errorRate           |-> ErrorRate(failed, total),
        percentiles         |-> <<percentile(sortedResponseTimes, 50),
                                  percentile(sortedResponseTimes, 95),
                                  percentile(sortedResponseTimes, 99)>>]

\* ------------------------------------------------------------ documents
\* The schema's defaults for results: every number 0, percentiles not set.
DefaultResults ==
    [totalRequests       |-> 0,
     successfulRequests  |-> 0,
     failedRequests      |-> 0,
     averageResponseTime |-> Num(0),
     minResponseTime     |-> 0,
     maxResponseTime     |-> 0,
     requestsPerSecond   |-> Num(0),
     errorRate           |-> Num(0),
     percentiles         |-> <<>>]

\* completedAt is <<>> while it is not set and <<t>> once it is.
NoConfig == [concurrentUsers |-> 0, usersFractional |-> FALSE, duration |-> 0, rampUpTime |-> 0]

\* No document: nothing constructed yet, nothing in the collection yet.
NoRecord ==
    [id |-> 0, projectId |-> "none", status |-> "absent", config |-> NoConfig,
     startedAt |-> 0, completedAt |-> <<>>, results |-> DefaultResults]

\* new PerformanceTest({ ..., config, status: 'running', startedAt: new Date() })
\* Its _id is new: the documents of earlier runs have the ids 1..MaxDocuments.
NewRecord(c, t) ==
    [id |-> MaxDocuments + 1, projectId |-> RunProject, status |-> "running", config |-> c,
     startedAt |-> t, completedAt |-> <<>>, results |-> DefaultResults]

\* A document of an earlier run, as the collection holds it.
Document(i, p, status, t) ==
    [id |-> i, projectId |-> p, status |-> status,
     config |-> [concurrentUsers |-> MinConcurrentUsers, usersFractional |-> FALSE,
                 duration |-> MinDuration, rampUpTime |-> 0],
     startedAt |-> t, completedAt |-> IF status = "running" THEN <<>> ELSE <<t>>,
     results |-> DefaultResults]

\* Changed: the schema has no percentiles path, so save() drops the field.
ToStoredWithoutPercentiles(doc) ==
    [doc EXCEPT !.results = [@ EXCEPT !.percentiles = <<>>]]

\* What save() writes: the paths the schema declares, and nothing else.
ToStored(doc) ==
    [id          |-> doc.id,
     projectId   |-> doc.projectId,
     status      |-> doc.status,
     config      |-> [concurrentUsers |-> doc.config.concurrentUsers,
                      usersFractional |-> doc.config.usersFractional,
                      duration        |-> doc.config.duration,
                      rampUpTime      |-> doc.config.rampUpTime],
     startedAt   |-> doc.startedAt,
     completedAt |-> doc.completedAt,
     results     |-> [totalRequests       |-> doc.results.totalRequests,
                      successfulRequests  |-> doc.results.successfulRequests,
                      failedRequests      |-> doc.results.failedRequests,
                      averageResponseTime |-> doc.results.averageResponseTime,
                      minResponseTime     |-> doc.results.minResponseTime,
                      maxResponseTime     |-> doc.results.maxResponseTime,
                      requestsPerSecond   |-> doc.results.requestsPerSecond,
                      errorRate           |-> doc.results.errorRate,
                      percentiles         |-> IF doc.results.percentiles = <<>>
                                              THEN <<>>
                                              ELSE <<doc.results.percentiles[1],
                                                     doc.results.percentiles[2],
                                                     doc.results.percentiles[3]>>]]

\* Changed: the schema has no min on the two numbers.
ValidatesAnything(c) == TRUE

\* Schema validation run by save(): both numbers have min: 1.
Validates(c) ==
    /\ c.concurrentUsers >= MinConcurrentUsers
    /\ c.duration >= MinDuration

\* Array(n) throws a RangeError unless n is a non-negative integer.
ValidArrayLength(c) == ~c.usersFractional /\ c.concurrentUsers >= 0

\* A makeRequest() that was not called, and one that returned.
Idle == [pc |-> "unstarted", requestStart |-> 0, wakeAt |-> 0]
Exited == [pc |-> "done", requestStart |-> 0, wakeAt |-> 0]

\* Changed: the deadline is the start time, the duration is not added.
DeadlineAtStart(startTime, duration) == startTime

\* Changed: the duration is added as milliseconds, not as seconds.
DeadlineInMs(startTime, duration) == startTime + duration

\* const endTime = startTime + (config.duration * 1000)
Deadline(startTime, duration) == startTime + duration * MsPerSecond

\* Changed: the loop goes on while Date.now() <= endTime.
LoopCheckInclusive(t, deadline) == t <= deadline

\* while (Date.now() < endTime)
LoopCheck(t, deadline) == t < deadline

\* const requestStart = Date.now(); await this.executeEndpointRequest(endpoint)
InFlight(t) == [pc |-> "request", requestStart |-> t, wakeAt |-> 0]

\* One evaluation of the loop condition by a worker, at time t.
NextIteration(t, deadline) == IF LoopCheck(t, deadline) THEN InFlight(t) ELSE Exited

\* Changed: with a rampUpTime every worker but the first waits for it before
\* its first loop check.
StartWorkerRamped(w, c, t, deadline) ==
    IF c.rampUpTime > 0 /\ w > 1
    THEN [pc |-> "sleep", requestStart |-> 0, wakeAt |-> t + c.rampUpTime * MsPerSecond]
    ELSE NextIteration(t, deadline)

\* Array(config.concurrentUsers).fill(null).map(() => makeRequest()): worker w
\* of config c runs up to its first await as soon as it is created, at time t.
StartWorker(w, c, t, deadline) == NextIteration(t, deadline)

\* Changed: the catch of makeRequest leaves the loop instead of falling through
\* to the sleep.
WorkerAbortsOnFailure(resolved, t) ==
    IF resolved
    THEN [pc |-> "sleep", requestStart |-> 0, wakeAt |-> t + PacingMs]
    ELSE [pc |-> "done", requestStart |-> 0, wakeAt |-> 0]

\* await this.sleep(100), reached from the try and from the catch alike.
WorkerAfterOutcome(resolved, t) == [pc |-> "sleep", requestStart |-> 0, wakeAt |-> t + PacingMs]

\* axios(config) with the default validateStatus: the promise resolves for a
\* 2xx response and rejects for any other response and for a transport failure.
AxiosResolves(o) == o = "2xx"

\* The accumulators of executeLoadTest as one value.
Accumulators ==
    [responseTimes      |-> responseTimes,
     totalRequests      |-> totalRequests,
     successfulRequests |-> successfulRequests,
     failedRequests     |-> failedRequests]

\* Changed: the try records the latency and the success and not the request.
OnResolvedNoTotal(acc, responseTime) ==
    [acc EXCEPT !.responseTimes = Append(@, responseTime),
                !.successfulRequests = @ + 1]

\* Changed: a response that arrives after the deadline is dropped.
OnResolvedDropsLate(acc, responseTime) ==
    IF now < endTime
    THEN [acc EXCEPT !.responseTimes = Append(@, responseTime),
                     !.totalRequests = @ + 1,
                     !.successfulRequests = @ + 1]
    ELSE acc

\* try: responseTimes.push(responseTime); totalRequests++; successfulRequests++
OnResolved(acc, responseTime) ==
    [acc EXCEPT !.responseTimes = Append(@, responseTime),
                !.totalRequests = @ + 1,
                !.successfulRequests = @ + 1]

\* Changed: the catch counts the failure and not the request.
OnRejectedNoTotal(acc) == [acc EXCEPT !.failedRequests = @ + 1]

\* Changed: the catch counts the request as a success.
OnRejectedCountsSuccess(acc) ==
    [acc EXCEPT !.totalRequests = @ + 1,
                !.successfulRequests = @ + 1]

\* catch: totalRequests++; failedRequests++
OnRejected(acc) ==
    [acc EXCEPT !.totalRequests = @ + 1,
                !.failedRequests = @ + 1]

\* Changed: Promise.race in place of Promise.all.
AnyWorkerExited(ws, n) == \E w \in Workers : w <= n /\ ws[w].pc = "done"

\* Changed: the array given to Promise.all has MaxUsers promises, and those of
\* workers that were never started never settle.
EveryPoolSlotExited(ws, n) == \A w \in Workers : ws[w].pc = "done"

\* await Promise.all(workers): every started makeRequest() has returned.
AllWorkersExited(ws, n) == \A w \in Workers : w <= n => ws[w].pc = "done"

\* testRecord.results = results; status = 'completed'; completedAt = new Date()
Completed(rec, results, t) ==
    [rec EXCEPT !.results = results, !.status = "completed", !.completedAt = <<t>>]

\* Changed: the catch sets the status and not completedAt.
FailedWithoutCompletedAt(rec, t) == [rec EXCEPT !.status = "failed"]

\* Changed: the catch sets completedAt and leaves the status as it is.
FailedKeepsStatus(rec, t) == [rec EXCEPT !.completedAt = <<t>>]

\* catch: testRecord.status = 'failed'; testRecord.completedAt = new Date()
Failed(rec, t) == [rec EXCEPT !.status = "failed", !.completedAt = <<t>>]

\* Changed: the catch throws a new error in place of the one it caught.
RethrowWrapped(error) == "Error"

\* catch: throw error
Rethrow(error) == error

\* Changed: the initial save is inside the try, so its rejection is caught.
AfterRejectedCreateInTry == "saveFailed"

\* Where a rejected initial save leaves the call: it is outside the try.
AfterRejectedCreate == "raised"

\* Changed: the catch returns the record in place of throwing.
AfterCatchReturns == "returned"

\* Where the catch block leaves the call once its save resolved.
AfterCatch == "raised"

\* ------------------------------------------------------ the HTTP request
NoRequest == [method |-> "none", url |-> "", headers |-> {}, params |-> <<>>, data |-> <<>>]

\* Changed: the body is attached whatever the method is.
executeEndpointRequestAnyMethod(e) ==
    [method  |-> e.method,
     url     |-> e.url,
     headers |-> IF e.headers # <<>> THEN e.headers[1] ELSE {},
     params  |-> IF e.queryParams # <<>> THEN e.queryParams ELSE <<>>,
     data    |-> IF e.body # <<>> THEN e.body ELSE <<>>]

\* executeEndpointRequest(e): the config it gives to axios.
executeEndpointRequest(e) ==
    [method  |-> e.method,
     url     |-> e.url,
     headers |-> IF e.headers # <<>> THEN e.headers[1] ELSE {},
     params  |-> IF e.queryParams # <<>> THEN e.queryParams ELSE <<>>,
     data    |-> IF e.body # <<>> /\ (e.method = "POST" \/ e.method = "PUT" \/ e.method = "PATCH")
                 THEN e.body
                 ELSE <<>>]

\* ----------------------------------------------------------- the history
\* The collection as find() sees it: the documents of the other runs in the
\* order they were inserted, then the document of this run once it is stored.
AllDocuments == IF store.status = "absent" THEN collection ELSE Append(collection, store)

\* find({ projectId })
Matching(docs, p) == SelectSeq(docs, LAMBDA d : d.projectId = p)

\* The database may return documents with the same startedAt in either order.
TieOrders == {"inserted", "reversed"}

RECURSIVE InsertDocument(_, _, _)
InsertDocument(d, s, tie) ==
    IF s = <<>> THEN <<d>>
    ELSE IF \/ d.startedAt > Head(s).startedAt
            \/ d.startedAt = Head(s).startedAt /\ tie = "inserted"
         THEN <<d>> \o s
         ELSE <<Head(s)>> \o InsertDocument(d, Tail(s), tie)

\* .sort({ startedAt: -1 })
RECURSIVE SortByStartedAt(_, _)
SortByStartedAt(docs, tie) ==
    IF docs = <<>> THEN <<>>
    ELSE InsertDocument(Head(docs), SortByStartedAt(Tail(docs), tie), tie)

\* .limit(n)
Limit(docs, n) == SubSeq(docs, 1, IF Len(docs) < n THEN Len(docs) ELSE n)

\* Changed: the query has no .limit(50).
getTestHistoryUnlimited(docs, p, tie) == SortByStartedAt(Matching(docs, p), tie)

\* getTestHistory(p) on the documents docs.
getTestHistory(docs, p, tie) == Limit(SortByStartedAt(Matching(docs, p), tie), HistoryLimit)

NoQuery == [projectId |-> "none", docs |-> <<>>]

\* The documents of two earlier runs, one of this project and one of another.
EarlierDocuments == <<Document(1, "p1", "completed", 0), Document(2, "p2", "running", 0)>>

\* ------------------------------------------------------ a second call
\* The locals of a second runPerformanceTest and of its executeLoadTest, and
\* how many calls of executeEndpointRequest it made, saw resolve and saw reject.
NoRun ==
    [pc          |-> "idle",
     config      |-> NoConfig,
     testRecord  |-> NoRecord,
     startTime   |-> 0,
     endTime     |-> 0,
     workers     |-> [w \in Workers |-> Idle],
     acc         |-> [responseTimes |-> <<>>, totalRequests |-> 0,
                      successfulRequests |-> 0, failedRequests |-> 0],
     caught      |-> "none",
     thrown      |-> "none",
     invocations |-> 0,
     returned    |-> 0,
     raised      |-> 0]

\* save() of a document of the collection: written under its _id.
SaveDocument(docs, doc) ==
    IF \E i \in 1..Len(docs) : docs[i].id = doc.id
    THEN [i \in 1..Len(docs) |-> IF docs[i].id = doc.id THEN ToStored(doc) ELSE docs[i]]
    ELSE Append(docs, ToStored(doc))

\* Changed: the accumulators are fields of the service, which every call of
\* executeLoadTest shares.
SharedAccumulators == Accumulators

\* The accumulators of the second call's executeLoadTest: its own locals.
OtherAccumulators == other.acc

NoHistory ==
    [invocations |-> 0,        \* calls of executeEndpointRequest
     returned    |-> 0,        \* ... that resolved
     raised      |-> 0,        \* ... that rejected
     responses   |-> 0,        \* HTTP responses received, whatever the status
     transport   |-> 0,        \* transport failures
     failedSaves |-> {},       \* the saves that rejected
     statistics  |-> FALSE,    \* executeLoadTest computed its statistics
     startTime   |-> 0,        \* executeLoadTest's startTime
     requested   |-> {}]       \* the workers that called executeEndpointRequest

InitRun ==
    /\ pc = "idle"
    /\ config = NoConfig
    /\ testRecord = NoRecord
    /\ store = NoRecord
    /\ now = 0
    /\ endTime = 0
    /\ workers = [w \in Workers |-> Idle]
    /\ responseTimes = <<>>
    /\ totalRequests = 0
    /\ successfulRequests = 0
    /\ failedRequests = 0
    /\ caught = "none"
    /\ thrown = "none"
    /\ history = NoHistory

Init ==
    /\ InitRun
    /\ endpoint = RunEndpoint
    /\ request = NoRequest
    /\ collection = EarlierDocuments
    /\ found = NoQuery
    /\ other = NoRun

\* runPerformanceTest(endpoint, projectId, c) up to its first await.
RunPerformanceTest(c) ==
    /\ pc = "idle"
    /\ config' = c
    /\ testRecord' = NewRecord(c, now)
    /\ pc' = "saveRunning"
    /\ UNCHANGED <<store, now, endTime, workers, responseTimes, totalRequests,
                   successfulRequests, failedRequests, caught, thrown, history>>
    /\ UNCHANGED <<request, outside>>

\* Date.now() advances while the call is suspended.
Tick ==
    /\ pc \notin {"idle", "returned", "raised"}
    /\ now < MaxTime
    /\ now' = now + TickMs
    /\ UNCHANGED <<pc, config, testRecord, store, endTime, workers, responseTimes,
                   totalRequests, successfulRequests, failedRequests, caught, thrown,
                   history>>
    /\ UNCHANGED <<request, outside>>

\* The first save() rejects: validation, or the database.  Nothing was written.
SaveRunningRejects(error) ==
    /\ pc = "saveRunning"
    /\ error = IF Validates(config) THEN "SaveRunningError" ELSE "ValidationError"
    /\ pc' = AfterRejectedCreate
    /\ thrown' = error
    /\ history' = [history EXCEPT !.failedSaves = @ \cup {"running"}]
    /\ UNCHANGED <<config, testRecord, store, now, endTime, workers, responseTimes,
                   totalRequests, successfulRequests, failedRequests, caught>>
    /\ UNCHANGED <<request, outside>>

\* The first save() resolves; executeLoadTest runs up to await Promise.all:
\* the deadline, Array(concurrentUsers), and every makeRequest() up to its first
\* await.  A RangeError of Array() lands in the catch block, which saves.
SaveRunningResolves ==
    /\ pc = "saveRunning"
    /\ Validates(config)
    /\ store' = ToStored(testRecord)
    /\ endTime' = Deadline(now, config.duration)
    /\ IF ~ValidArrayLength(config)
       THEN /\ caught' = "RangeError"
            /\ testRecord' = Failed(testRecord, now)
            /\ pc' = "saveFailed"
            /\ history' = [history EXCEPT !.startTime = now]
            /\ UNCHANGED <<workers, request>>
       ELSE LET ws == [w \in Workers |->
                         IF w <= config.concurrentUsers
                         THEN StartWorker(w, config, now, endTime')
                         ELSE Idle]
                started == Cardinality({w \in Workers : ws[w].pc = "request"})
                joined == AllWorkersExited(ws, config.concurrentUsers)
            IN /\ workers' = ws
               /\ history' = [history EXCEPT
                                 !.invocations = @ + started,
                                 !.statistics = joined,
                                 !.startTime = now,
                                 !.requested = {w \in Workers : ws[w].pc = "request"}]
               /\ caught' = caught
               /\ request' = IF started > 0 THEN executeEndpointRequest(endpoint) ELSE request
               /\ IF joined
                  THEN /\ testRecord' = Completed(testRecord,
                                           Statistics(responseTimes, totalRequests,
                                                      successfulRequests, failedRequests,
                                                      config.duration), now)
                       /\ pc' = "saveCompleted"
                  ELSE /\ testRecord' = testRecord
                       /\ pc' = "loadTest"
    /\ UNCHANGED <<config, now, responseTimes, totalRequests, successfulRequests,
                   failedRequests, thrown>>
    /\ UNCHANGED outside

\* The request of worker w settles with outcome o; the worker counts it and
\* starts its pacing sleep.
Respond(w, o) ==
    /\ workers[w].pc = "request"
    /\ LET resolved == AxiosResolves(o)
           acc == IF resolved
                  THEN OnResolved(Accumulators, now - workers[w].requestStart)
                  ELSE OnRejected(Accumulators)
       IN /\ responseTimes' = acc.responseTimes
          /\ totalRequests' = acc.totalRequests
          /\ successfulRequests' = acc.successfulRequests
          /\ failedRequests' = acc.failedRequests
          /\ workers' = [workers EXCEPT ![w] = WorkerAfterOutcome(resolved, now)]
          /\ history' = [history EXCEPT
                            !.returned = IF resolved THEN @ + 1 ELSE @,
                            !.raised = IF resolved THEN @ ELSE @ + 1,
                            !.responses = IF o = "transport" THEN @ ELSE @ + 1,
                            !.transport = IF o = "transport" THEN @ + 1 ELSE @]
    /\ UNCHANGED <<pc, config, testRecord, store, now, endTime, caught, thrown>>
    /\ UNCHANGED <<request, outside>>

\* The pacing timer of worker w fires: the loop condition is evaluated, and the
\* worker sends its next request or returns.  When the last worker returns,
\* Promise.all resolves, executeLoadTest computes the statistics and returns, and
\* runPerformanceTest goes on to its save of the completed record.
Wake(w) ==
    /\ workers[w].pc = "sleep"
    /\ now >= workers[w].wakeAt
    /\ LET ws == [workers EXCEPT ![w] = NextIteration(now, endTime)]
           joined == pc = "loadTest" /\ AllWorkersExited(ws, config.concurrentUsers)
       IN /\ workers' = ws
          /\ history' = [history EXCEPT
                            !.invocations = IF ws[w].pc = "request" THEN @ + 1 ELSE @,
                            !.requested = IF ws[w].pc = "request" THEN @ \cup {w} ELSE @,
                            !.statistics = @ \/ joined]
          /\ request' = IF ws[w].pc = "request"
                        THEN executeEndpointRequest(endpoint)
                        ELSE request
          /\ IF joined
             THEN /\ testRecord' = Completed(testRecord,
                                      Statistics(responseTimes, totalRequests,
                                                 successfulRequests, failedRequests,
                                                 config.duration), now)
                  /\ pc' = "saveCompleted"
             ELSE UNCHANGED <<testRecord, pc>>
    /\ UNCHANGED <<config, store, now, endTime, responseTimes, totalRequests,
                   successfulRequests, failedRequests, caught, thrown>>
    /\ UNCHANGED outside

\* The save of the completed record resolves: return testRecord.
SaveCompletedResolves ==
    /\ pc = "saveCompleted"
    /\ store' = ToStored(testRecord)
    /\ pc' = "returned"
    /\ UNCHANGED <<config, testRecord, now, endTime, workers, responseTimes,
                   totalRequests, successfulRequests, failedRequests, caught, thrown,
                   history>>
    /\ UNCHANGED <<request, outside>>

\* The save of the completed record rejects: it is inside the try, so the catch
\* block runs up to its own save.
SaveCompletedRejects ==
    /\ pc = "saveCompleted"
    /\ caught' = "SaveCompletedError"
    /\ testRecord' = Failed(testRecord, now)
    /\ pc' = "saveFailed"
    /\ history' = [history EXCEPT !.failedSaves = @ \cup {"completed"}]
    /\ UNCHANGED <<config, store, now, endTime, workers, responseTimes,
                   totalRequests, successfulRequests, failedRequests, thrown>>
    /\ UNCHANGED <<request, outside>>

\* The save of the catch block resolves: throw error.
SaveFailedResolves ==
    /\ pc = "saveFailed"
    /\ store' = ToStored(testRecord)
    /\ thrown' = Rethrow(caught)
    /\ pc' = AfterCatch
    /\ UNCHANGED <<config, testRecord, now, endTime, workers, responseTimes,
                   totalRequests, successfulRequests, failedRequests, caught, history>>
    /\ UNCHANGED <<request, outside>>

\* The save of the catch block rejects: its error leaves runPerformanceTest.
SaveFailedRejects ==
    /\ pc = "saveFailed"
    /\ thrown' = "SaveFailedError"
    /\ pc' = "raised"
    /\ history' = [history EXCEPT !.failedSaves = @ \cup {"failed"}]
    /\ UNCHANGED <<config, testRecord, store, now, endTime, workers, responseTimes,
                   totalRequests, successfulRequests, failedRequests, caught>>
    /\ UNCHANGED <<request, outside>>

Next ==
    \/ \E c \in Configs : RunPerformanceTest(c)
    \/ Tick
    \/ \E e \in {"SaveRunningError", "ValidationError"} : SaveRunningRejects(e)
    \/ SaveRunningResolves
    \/ \E w \in Workers, o \in Outcomes : Respond(w, o)
    \/ \E w \in Workers : Wake(w)
    \/ SaveCompletedResolves
    \/ SaveCompletedRejects
    \/ SaveFailedResolves
    \/ SaveFailedRejects

Spec == Init /\ [][Next]_vars

\* ------------------------------------------------------------ progress
\* The run under the assumptions that the database rejects no save (schema
\* validation still does), that every request in flight settles, that every
\* timer that is due fires, and that the clock goes on while a timer is pending.
TickForTimer ==
    /\ pc \notin {"idle", "returned", "raised"}
    /\ now >= MaxTime
    /\ \E w \in Workers : workers[w].pc = "sleep" /\ workers[w].wakeAt > now
    /\ now' = now + TickMs
    /\ UNCHANGED <<pc, config, testRecord, store, endTime, workers, responseTimes,
                   totalRequests, successfulRequests, failedRequests, caught, thrown,
                   history>>
    /\ UNCHANGED <<request, outside>>

\* The configs of the progress runs: none, one or two workers, no ramp-up.
LiveConfigs ==
    {c \in Configs : c.rampUpTime = 0 /\ c.concurrentUsers <= MinConcurrentUsers + 1}

NextLive ==
    \/ \E c \in LiveConfigs : RunPerformanceTest(c)
    \/ Tick
    \/ TickForTimer
    \/ SaveRunningRejects("ValidationError")
    \/ SaveRunningResolves
    \/ \E w \in Workers, o \in Outcomes : Respond(w, o)
    \/ \E w \in Workers : Wake(w)
    \/ SaveCompletedResolves
    \/ SaveFailedResolves

Fairness ==
    /\ WF_vars(Tick)
    /\ WF_vars(TickForTimer)
    /\ WF_vars(SaveRunningResolves)
    /\ WF_vars(SaveCompletedResolves)
    /\ WF_vars(SaveFailedResolves)
    /\ \A w \in Workers : WF_vars(\E o \in Outcomes : Respond(w, o))
    /\ \A w \in Workers : WF_vars(Wake(w))

SpecLive == Init /\ [][NextLive]_vars /\ Fairness

\* ------------------------------------------------- the statistics alone
\* executeLoadTest at await Promise.all with every worker returned, for every
\* content of the accumulators within the bounds: the latencies in the order the
\* workers pushed them, and any number of failures.
RECURSIVE SeqsUpTo(_, _)
SeqsUpTo(S, n) ==
    IF n = 0 THEN {<<>>}
    ELSE LET shorter == SeqsUpTo(S, n - 1)
         IN shorter \cup {Append(q, x) : q \in {r \in shorter : Len(r) = n - 1}, x \in S}

InitAggregate ==
    /\ pc = "loadTest"
    /\ config \in [concurrentUsers : {MinConcurrentUsers},
                   usersFractional : {FALSE},
                   duration        : AggregateDurations,
                   rampUpTime      : {0}]
    /\ testRecord = NewRecord(config, 0)
    /\ store = ToStored(testRecord)
    /\ endTime = Deadline(0, config.duration)
    /\ now = endTime
    /\ workers = [w \in Workers |-> IF w <= config.concurrentUsers THEN Exited ELSE Idle]
    /\ responseTimes \in SeqsUpTo(Latencies, MaxSamples)
    /\ failedRequests \in 0..MaxFailed
    /\ successfulRequests = Len(responseTimes)
    /\ totalRequests = successfulRequests + failedRequests
    /\ caught = "none"
    /\ thrown = "none"
    /\ history = [NoHistory EXCEPT !.invocations = totalRequests,
                                   !.returned = successfulRequests,
                                   !.raised = failedRequests,
                                   !.responses = successfulRequests,
                                   !.transport = failedRequests,
                                   !.requested = 1..config.concurrentUsers]
    /\ endpoint = RunEndpoint
    /\ request = IF totalRequests = 0 THEN NoRequest ELSE executeEndpointRequest(endpoint)
    /\ collection = EarlierDocuments
    /\ found = NoQuery
    /\ other = NoRun

\* Promise.all resolves: the statistics are computed and returned, and
\* runPerformanceTest puts them on the record, up to its save.
ComputeStatistics ==
    /\ pc = "loadTest"
    /\ AllWorkersExited(workers, config.concurrentUsers)
    /\ testRecord' = Completed(testRecord,
                               Statistics(responseTimes, totalRequests,
                                          successfulRequests, failedRequests,
                                          config.duration), now)
    /\ pc' = "saveCompleted"
    /\ history' = [history EXCEPT !.statistics = TRUE]
    /\ UNCHANGED <<config, store, now, endTime, workers, responseTimes, totalRequests,
                   successfulRequests, failedRequests, caught, thrown>>
    /\ UNCHANGED <<request, outside>>

NextAggregate == ComputeStatistics

SpecAggregate == InitAggregate /\ [][NextAggregate]_vars

\* ------------------------------------------------------ two calls
\* Two calls of runPerformanceTest that overlap.  The first is the run above;
\* the second has its locals in other and its document in collection.  Both
\* read the same clock.
TwoRunConfigs ==
    {c \in Configs : /\ Validates(c)
                     /\ ~c.usersFractional
                     /\ c.concurrentUsers = MinConcurrentUsers
                     /\ c.rampUpTime = 0}

OtherRunPerformanceTest(c) ==
    /\ other.pc = "idle"
    /\ other' = [other EXCEPT !.pc = "saveRunning",
                              !.config = c,
                              !.testRecord = [NewRecord(c, now) EXCEPT !.id = @ + 1]]
    /\ UNCHANGED <<runVars, request, endpoint, collection, found>>

OtherSaveRunningRejects ==
    /\ other.pc = "saveRunning"
    /\ other' = [other EXCEPT !.pc = AfterRejectedCreate,
                              !.thrown = IF Validates(other.config)
                                         THEN "SaveRunningError"
                                         ELSE "ValidationError"]
    /\ UNCHANGED <<runVars, request, endpoint, collection, found>>

OtherSaveRunningResolves ==
    /\ other.pc = "saveRunning"
    /\ Validates(other.config)
    /\ collection' = SaveDocument(collection, other.testRecord)
    /\ LET deadline == Deadline(now, other.config.duration)
       IN IF ~ValidArrayLength(other.config)
          THEN /\ other' = [other EXCEPT !.startTime = now,
                                         !.endTime = deadline,
                                         !.caught = "RangeError",
                                         !.testRecord = Failed(@, now),
                                         !.pc = "saveFailed"]
               /\ UNCHANGED request
          ELSE LET ws == [w \in Workers |->
                            IF w <= other.config.concurrentUsers
                            THEN StartWorker(w, other.config, now, deadline)
                            ELSE Idle]
                   started == Cardinality({w \in Workers : ws[w].pc = "request"})
                   joined == AllWorkersExited(ws, other.config.concurrentUsers)
                   acc == OtherAccumulators
               IN /\ other' = [other EXCEPT
                                  !.startTime = now,
                                  !.endTime = deadline,
                                  !.workers = ws,
                                  !.invocations = @ + started,
                                  !.testRecord =
                                      IF joined
                                      THEN Completed(@, Statistics(acc.responseTimes,
                                                                   acc.totalRequests,
                                                                   acc.successfulRequests,
                                                                   acc.failedRequests,
                                                                   other.config.duration), now)
                                      ELSE @,
                                  !.pc = IF joined THEN "saveCompleted" ELSE "loadTest"]
                  /\ request' = IF started > 0
                                THEN executeEndpointRequest(endpoint)
                                ELSE request
    /\ UNCHANGED <<runVars, endpoint, found>>

OtherRespond(w, o) ==
    /\ other.workers[w].pc = "request"
    /\ LET resolved == AxiosResolves(o)
           acc == IF resolved
                  THEN OnResolved(OtherAccumulators, now - other.workers[w].requestStart)
                  ELSE OnRejected(OtherAccumulators)
       IN other' = [other EXCEPT !.acc = acc,
                                 !.workers[w] = WorkerAfterOutcome(resolved, now),
                                 !.returned = IF resolved THEN @ + 1 ELSE @,
                                 !.raised = IF resolved THEN @ ELSE @ + 1]
    /\ UNCHANGED <<runVars, request, endpoint, collection, found>>

OtherWake(w) ==
    /\ other.workers[w].pc = "sleep"
    /\ now >= other.workers[w].wakeAt
    /\ LET ws == [other.workers EXCEPT ![w] = NextIteration(now, other.endTime)]
           joined == other.pc = "loadTest"
                     /\ AllWorkersExited(ws, other.config.concurrentUsers)
           acc == OtherAccumulators
       IN /\ other' = [other EXCEPT
                          !.workers = ws,
                          !.invocations = IF ws[w].pc = "request" THEN @ + 1 ELSE @,
                          !.testRecord =
                              IF joined
                              THEN Completed(@, Statistics(acc.responseTimes,
                                                           acc.totalRequests,
                                                           acc.successfulRequests,
                                                           acc.failedRequests,
                                                           other.config.duration), now)
                              ELSE @,
                          !.pc = IF joined THEN "saveCompleted" ELSE @]
          /\ request' = IF ws[w].pc = "request"
                        THEN executeEndpointRequest(endpoint)
                        ELSE request
    /\ UNCHANGED <<runVars, endpoint, collection, found>>

OtherSaveCompletedResolves ==
    /\ other.pc = "saveCompleted"
    /\ collection' = SaveDocument(collection, other.testRecord)
    /\ other' = [other EXCEPT !.pc = "returned"]
    /\ UNCHANGED <<runVars, request, endpoint, found>>

OtherSaveCompletedRejects ==
    /\ other.pc = "saveCompleted"
    /\ other' = [other EXCEPT !.caught = "SaveCompletedError",
                              !.testRecord = Failed(@, now),
                              !.pc = "saveFailed"]
    /\ UNCHANGED <<runVars, request, endpoint, collection, found>>

OtherSaveFailedResolves ==
    /\ other.pc = "saveFailed"
    /\ collection' = SaveDocument(collection, other.testRecord)
    /\ other' = [other EXCEPT !.thrown = Rethrow(other.caught), !.pc = AfterCatch]
    /\ UNCHANGED <<runVars, request, endpoint, found>>

OtherSaveFailedRejects ==
    /\ other.pc = "saveFailed"
    /\ other' = [other EXCEPT !.thrown = "SaveFailedError", !.pc = "raised"]
    /\ UNCHANGED <<runVars, request, endpoint, collection, found>>

\* Date.now() advances while either call is suspended.
TickTwoRuns ==
    /\ \/ pc \notin {"idle", "returned", "raised"}
       \/ other.pc \notin {"idle", "returned", "raised"}
    /\ now < MaxTime
    /\ now' = now + TickMs
    /\ UNCHANGED <<pc, config, testRecord, store, endTime, workers, responseTimes,
                   totalRequests, successfulRequests, failedRequests, caught, thrown,
                   history>>
    /\ UNCHANGED <<request, outside>>

NextTwoRuns ==
    \/ \E c \in TwoRunConfigs : RunPerformanceTest(c)
    \/ TickTwoRuns
    \/ SaveRunningRejects("SaveRunningError")
    \/ SaveRunningResolves
    \/ \E w \in Workers, o \in Outcomes : Respond(w, o)
    \/ \E w \in Workers : Wake(w)
    \/ SaveCompletedResolves
    \/ SaveCompletedRejects
    \/ SaveFailedResolves
    \/ SaveFailedRejects
    \/ \E c \in TwoRunConfigs : OtherRunPerformanceTest(c)
    \/ OtherSaveRunningRejects
    \/ OtherSaveRunningResolves
    \/ \E w \in Workers, o \in Outcomes : OtherRespond(w, o)
    \/ \E w \in Workers : OtherWake(w)
    \/ OtherSaveCompletedResolves
    \/ OtherSaveCompletedRejects
    \/ OtherSaveFailedResolves
    \/ OtherSaveFailedRejects

SpecTwoRuns == Init /\ [][NextTwoRuns]_vars

\* ------------------------------------------------ the request alone
\* executeEndpointRequest for every endpoint of Endpoints.
InitRequest ==
    /\ InitRun
    /\ endpoint \in Endpoints
    /\ request = NoRequest
    /\ collection = <<>>
    /\ found = NoQuery
    /\ other = NoRun

\* One call of executeEndpointRequest(endpoint), up to axios(config).
ExecuteEndpointRequest ==
    /\ request' = executeEndpointRequest(endpoint)
    /\ UNCHANGED <<runVars, outside>>

NextRequest == ExecuteEndpointRequest

SpecRequest == InitRequest /\ [][NextRequest]_vars

\* ------------------------------------------------ the history alone
\* The collections getTestHistory is tried on: n documents, with startedAt
\* rising or falling with the order of insertion or mixed with repeats, of one
\* project or of two in turn, and of every status.
Layouts == {"ascending", "descending", "mixed"}
Owners == {"one", "two"}

StartedAtOf(i, n, layout) ==
    CASE layout = "ascending" -> i
      [] layout = "descending" -> n - i
      [] layout = "mixed" -> (i * 7) % 10

ProjectOf(i, owners) == IF owners = "one" \/ i % 2 = 1 THEN "p1" ELSE "p2"

StatusOf(i) == <<"running", "completed", "failed">>[(i % 3) + 1]

DocumentsOf(n, layout, owners) ==
    [i \in 1..n |-> Document(i, ProjectOf(i, owners), StatusOf(i), StartedAtOf(i, n, layout))]

InitHistory ==
    /\ InitRun
    /\ endpoint = RunEndpoint
    /\ request = NoRequest
    /\ collection \in {DocumentsOf(n, layout, owners) :
                          n \in 0..MaxDocuments, layout \in Layouts, owners \in Owners}
    /\ found = NoQuery
    /\ other = NoRun

\* getTestHistory(p): the query runs and its documents are returned.
GetTestHistory(p, tie) ==
    /\ found' = [projectId |-> p, docs |-> getTestHistory(AllDocuments, p, tie)]
    /\ UNCHANGED <<runVars, request, endpoint, collection, other>>

NextHistory == \E p \in Projects, tie \in TieOrders : GetTestHistory(p, tie)

SpecHistory == InitHistory /\ [][NextHistory]_vars

\* ----------------------------------------------------------------- claims
Terminal == {"returned", "raised"}

\* C1: every request that receives an HTTP response, whatever its status code,
\* is counted as successful with a latency sample; only transport failures are
\* counted as failed.
C1_AnyResponseIsSuccess ==
    /\ successfulRequests = history.responses
    /\ Len(responseTimes) = history.responses
    /\ failedRequests = history.transport

\* C2: the status of a record changes once, from running to completed or to
\* failed: a terminal status is never replaced and running never comes back.
C2_StatusChangesOnce ==
    [][/\ testRecord.status \in {"completed", "failed"}
          => testRecord'.status = testRecord.status
       /\ store.status \in {"completed", "failed"}
          => store'.status = store.status]_vars

\* C3: a record whose status is failed carries no computed results: they are
\* the schema's defaults.
C3_FailedHasNoResults ==
    /\ store.status = "failed" => store.results = DefaultResults
    /\ testRecord.status = "failed" => testRecord.results = DefaultResults

\* C4 as stated: once an error was caught after the running record was created,
\* the failed record is persisted and the caller gets the error that was caught.
C4_FailedPersistedAndSameError ==
    (pc = "raised" /\ caught # "none")
        => /\ store.status = "failed"
           /\ store.completedAt # <<>>
           /\ thrown = caught

\* C4 as amended: the catch block sets failed and completedAt on the record and
\* saves it; when that save resolves the store holds the failed record and the
\* caller gets the error that was caught; when it rejects the stored record is
\* still running and the caller gets the error of that save.
C4_CatchSavesThenRethrows ==
    (pc = "raised" /\ caught # "none")
        => /\ testRecord.status = "failed"
           /\ testRecord.completedAt # <<>>
           /\ IF "failed" \notin history.failedSaves
              THEN /\ store = testRecord
                   /\ thrown = caught
              ELSE /\ store.status = "running"
                   /\ store.completedAt = <<>>
                   /\ thrown = "SaveFailedError"

C4_Witness ==
    /\ pc = "raised"
    /\ caught = "SaveCompletedError"
    /\ thrown = caught
    /\ store.status = "failed"

\* C5: when a save of the record rejected, the call does not return a record:
\* once it has ended it has raised an error.
C5_FailedSaveIsRaised ==
    /\ history.failedSaves # {} => pc # "returned"
    /\ (history.failedSaves # {} /\ pc \in Terminal) => (pc = "raised" /\ thrown # "none")

C5_Witness ==
    /\ pc = "raised"
    /\ history.failedSaves = {"completed"}
    /\ store.status = "failed"

\* C6: when the save that creates the running record rejects, its error goes to
\* the caller, the store holds no record, no worker was started and no request
\* was sent.
C6_RejectedCreateStopsTheRun ==
    "running" \in history.failedSaves
        => /\ pc = "raised"
           /\ thrown \in {"SaveRunningError", "ValidationError"}
           /\ caught = "none"
           /\ store = NoRecord
           /\ testRecord.status = "running"
           /\ \A w \in Workers : workers[w] = Idle
           /\ history.invocations = 0

C6_Witness ==
    /\ pc = "raised"
    /\ thrown = "SaveRunningError"
    /\ Validates(config)
    /\ store = NoRecord

\* C7: a transport failure of a request of worker w adds one to failedRequests
\* and to totalRequests and nothing else to the accumulators, sends w to its
\* pacing sleep, leaves the other workers and runPerformanceTest where they are,
\* and does not keep the record from being completed.
C7_TransportFailureAbsorbed ==
    /\ [][\A w \in Workers :
            (/\ history'.transport = history.transport + 1
             /\ workers[w].pc = "request"
             /\ workers'[w] # workers[w])
            => /\ failedRequests' = failedRequests + 1
               /\ totalRequests' = totalRequests + 1
               /\ successfulRequests' = successfulRequests
               /\ responseTimes' = responseTimes
               /\ workers'[w].pc = "sleep"
               /\ workers'[w].wakeAt = now + PacingMs
               /\ \A v \in Workers \ {w} : workers'[v] = workers[v]
               /\ UNCHANGED <<pc, testRecord, store, caught, thrown>>]_vars
    /\ [](history.transport > 0 => caught \in {"none", "SaveCompletedError"})
    /\ []((history.transport > 0 /\ history.statistics /\ history.failedSaves = {})
            => (testRecord.status = "completed" /\ pc \in {"saveCompleted", "returned"}))

C7_Witness ==
    /\ pc = "returned"
    /\ history.transport > 0
    /\ store.status = "completed"
    /\ store.results.failedRequests = history.raised

\* C8: when executeLoadTest has computed its statistics, every one of the
\* concurrentUsers workers has left its loop (none has a request in flight or a
\* timer pending) and every outcome any worker produced is in the counts.
C8_StatisticsAfterAllWorkers ==
    history.statistics
        => /\ \A w \in Workers : workers[w].pc = IF w <= config.concurrentUsers
                                                 THEN "done" ELSE "unstarted"
           /\ testRecord.results.totalRequests = history.returned + history.raised
           /\ testRecord.results.totalRequests = history.invocations

C8_Witness ==
    /\ history.statistics
    /\ config.concurrentUsers = 2
    /\ testRecord.results.totalRequests >= 3

\* C9: no update of the shared accumulators is lost or duplicated: while the
\* workers run every settled request is counted once, and the result counts the
\* invocations, those that resolved and those that rejected, with one latency
\* sample for each that resolved.
C9_NoLostUpdate ==
    /\ totalRequests = history.returned + history.raised
    /\ totalRequests + Cardinality({w \in Workers : workers[w].pc = "request"})
         = history.invocations
    /\ successfulRequests = history.returned
    /\ failedRequests = history.raised
    /\ Len(responseTimes) = history.returned
    /\ history.statistics
         => /\ testRecord.results.totalRequests = history.invocations
            /\ testRecord.results.successfulRequests = history.returned
            /\ testRecord.results.failedRequests = history.raised

C9_Witness ==
    /\ history.statistics
    /\ config.concurrentUsers = 2
    /\ history.returned >= 2
    /\ history.raised >= 1
    /\ Len(responseTimes) >= 2
    /\ responseTimes[1] > responseTimes[2]

\* C10: in every result of executeLoadTest, totalRequests is the sum of
\* successfulRequests and failedRequests.
C10_TotalIsSum ==
    \A rec \in {testRecord, store} :
        rec.results.totalRequests
            = rec.results.successfulRequests + rec.results.failedRequests

C10_Witness ==
    /\ pc = "returned"
    /\ store.results.successfulRequests > 0
    /\ store.results.failedRequests > 0

\* When executeLoadTest's deadline has passed.
DeadlinePassed == now >= history.startTime + config.duration * MsPerSecond

\* C11: with concurrentUsers >= 1 and duration >= 1 every started worker calls
\* executeEndpointRequest at least once before it leaves its loop, so the result
\* has totalRequests >= concurrentUsers.
C11_EveryWorkerIterates ==
    /\ \A w \in Workers : workers[w].pc # "unstarted" => w \in history.requested
    /\ pc = "loadTest"
         => {w \in Workers : workers[w].pc # "unstarted"} = 1..config.concurrentUsers
    /\ history.statistics
         => /\ history.requested = 1..config.concurrentUsers
            /\ testRecord.results.totalRequests >= config.concurrentUsers

C11_Witness ==
    /\ history.statistics
    /\ config.concurrentUsers = 2
    /\ config.duration >= 1
    /\ testRecord.results.totalRequests = 2

\* C12: a request in flight when the deadline passes is not cancelled: the
\* worker stays suspended on it until it settles, then counts it as it counts a
\* request that settled before the deadline, and the statistics are computed
\* only after that, with the outcome in them.
C12_InFlightRequestCompletes ==
    /\ [][\A w \in Workers :
            (workers[w].pc = "request" /\ now >= endTime)
            => \/ workers'[w] = workers[w]
               \/ /\ workers'[w].pc = "sleep"
                  /\ totalRequests' = totalRequests + 1
                  /\ \/ /\ successfulRequests' = successfulRequests + 1
                        /\ failedRequests' = failedRequests
                        /\ responseTimes'
                             = Append(responseTimes, now - workers[w].requestStart)
                     \/ /\ failedRequests' = failedRequests + 1
                        /\ successfulRequests' = successfulRequests
                        /\ responseTimes' = responseTimes]_vars
    /\ []((\E w \in Workers : workers[w].pc = "request") => ~history.statistics)
    /\ [](history.statistics
            => /\ testRecord.results.totalRequests = history.invocations
               /\ testRecord.results.successfulRequests = Len(responseTimes))

\* A latency of at least the duration is that of a request that settled at or
\* after the deadline.
C12_Witness ==
    /\ pc = "returned"
    /\ store.results.maxResponseTime >= config.duration * MsPerSecond
    /\ store.results.totalRequests = history.invocations

\* C13 as stated: the call does not return before the configured duration has
\* elapsed since executeLoadTest started, and a record stays running until the
\* deadline has passed and every worker has returned.
C13_RunningUntilDeadline ==
    /\ pc = "returned" => DeadlinePassed
    /\ \A rec \in {testRecord, store} :
         rec.status \in {"completed", "failed"}
            => /\ DeadlinePassed
               /\ \A w \in Workers : workers[w].pc = IF w <= config.concurrentUsers
                                                      THEN "done" ELSE "unstarted"

\* C13 as amended: nothing ends a running test early: the statistics are computed, the
\* record is completed and the call returns only when the configured duration has
\* elapsed since executeLoadTest started and every worker has returned.  A record
\* leaves running before that only when Array(concurrentUsers) raised, that is
\* when no worker was started.
C13_NoEarlyEnd ==
    /\ (history.statistics \/ pc = "returned")
         => /\ DeadlinePassed
            /\ \A w \in Workers : workers[w].pc \in {"unstarted", "done"}
    /\ \A rec \in {testRecord, store} :
         rec.status \in {"completed", "failed"}
            => \/ history.statistics /\ DeadlinePassed
               \/ /\ caught = "RangeError"
                  /\ \A w \in Workers : workers[w] = Idle
    /\ (pc = "loadTest" /\ ~DeadlinePassed)
         => (testRecord.status = "running" /\ store.status = "running")

C13_Witness ==
    /\ pc = "returned"
    /\ DeadlinePassed
    /\ now = history.startTime + config.duration * MsPerSecond
    /\ store.status = "completed"

\* C14: completedAt of a record is absent exactly while its status is running,
\* and set whenever the status is completed or failed.
C14_CompletedAtIffTerminal ==
    \A rec \in {testRecord, store} :
        rec.status # "absent" => (rec.status = "running" <=> rec.completedAt = <<>>)

C14_Witness ==
    /\ store.status = "failed"
    /\ store.completedAt # <<>>
    /\ caught = "RangeError"

\* The result executeLoadTest returned, once it has.
Result == testRecord.results

\* C15: when the run produced no request at all, every derived metric of the
\* result is the number 0 (no NaN, no Infinity), for every duration the
\* statistics can be given.
C15_ZeroRequestsAllZero ==
    (history.statistics /\ Result.totalRequests = 0)
        => /\ Result.averageResponseTime = Num(0)
           /\ Result.minResponseTime = 0
           /\ Result.maxResponseTime = 0
           /\ Result.requestsPerSecond = Num(0)
           /\ Result.errorRate = Num(0)
           /\ Result.percentiles = <<0, 0, 0>>

C15_Witness ==
    /\ history.statistics
    /\ Result.totalRequests = 0
    /\ config.duration > MinDuration
    /\ Result.requestsPerSecond = Num(0)

\* C16: errorRate is a number between 0 and 100; it is failedRequests /
\* totalRequests * 100 when totalRequests > 0 and 0 when totalRequests = 0.
C16_ErrorRate ==
    history.statistics
        => LET e == Result.errorRate
           IN /\ e.den > 0
              /\ 0 <= e.num
              /\ e.num <= 100 * e.den
              /\ Result.totalRequests > 0
                   => e.num * Result.totalRequests = Result.failedRequests * 100 * e.den
              /\ Result.totalRequests = 0 => e = Num(0)

C16_Witness ==
    /\ history.statistics
    /\ Result.failedRequests = 1
    /\ Result.successfulRequests = 2
    /\ Result.errorRate = [num |-> 100, den |-> 3]

\* The least integer i with i >= p/100 * n.
CeilingOf(p, n) == CHOOSE i \in 0..n : 100 * i >= p * n /\ 100 * (i - 1) < p * n

\* C17: for the sorted latencies L and p in {50, 95, 99} the percentile is
\* L[index] with index = ceil(p/100 * len(L)) - 1, which lies in 0..len(L)-1 with
\* no upper clamp; it is 0 when L is empty; [10,20,30,40,50] gives 30, 50, 50.
C17_Percentile ==
    history.statistics
        => LET L == Sort(responseTimes)
               n == Len(L)
               P == <<50, 95, 99>>
           IN /\ \A k \in 1..3 :
                    IF n = 0
                    THEN Result.percentiles[k] = 0
                    ELSE LET index == CeilingOf(P[k], n) - 1
                         IN /\ 0 <= index
                            /\ index <= n - 1
                            /\ Result.percentiles[k] = L[index + 1]
              /\ L = <<10, 20, 30, 40, 50>> => Result.percentiles = <<30, 50, 50>>

C17_Witness ==
    /\ history.statistics
    /\ responseTimes = <<50, 10, 40, 20, 30>>
    /\ Result.percentiles = <<30, 50, 50>>

\* C18: whenever at least one request succeeded, p50 <= p95 <= p99.
C18_PercentilesOrdered ==
    (history.statistics /\ Result.successfulRequests >= 1)
        => /\ Result.percentiles[1] <= Result.percentiles[2]
           /\ Result.percentiles[2] <= Result.percentiles[3]

C18_Witness ==
    /\ history.statistics
    /\ responseTimes = <<50, 10>>
    /\ Result.percentiles[1] < Result.percentiles[2]

\* C19: average, min and max come from the latencies of the successful requests
\* only: the average is their sum over their number, min the smallest and max
\* the largest of them, each 0 when there is none; failures add nothing.
C19_AverageMinMax ==
    history.statistics
        => LET n == Len(responseTimes)
               a == Result.averageResponseTime
               values == {responseTimes[i] : i \in 1..n}
           IN IF n = 0
              THEN /\ a = Num(0)
                   /\ Result.minResponseTime = 0
                   /\ Result.maxResponseTime = 0
              ELSE /\ a.den > 0
                   /\ a.num * n = Sum(responseTimes) * a.den
                   /\ Result.minResponseTime \in values
                   /\ Result.maxResponseTime \in values
                   /\ \A v \in values : Result.minResponseTime <= v /\ v <= Result.maxResponseTime

C19_Witness ==
    /\ history.statistics
    /\ responseTimes = <<30, 10, 20, 20>>
    /\ Result.failedRequests = 2
    /\ Result.averageResponseTime = Num(20)
    /\ Result.minResponseTime = 10
    /\ Result.maxResponseTime = 30

\* C20: when every request of a run raised a transport error the run still
\* completes, and its result has successfulRequests = 0, failedRequests =
\* totalRequests > 0, errorRate = 100 and average, min, max and the three
\* percentiles equal to 0.
C20_AllTransportErrors ==
    (history.statistics /\ history.transport = history.invocations)
        => /\ testRecord.results.successfulRequests = 0
           /\ testRecord.results.totalRequests > 0
           /\ testRecord.results.failedRequests = testRecord.results.totalRequests
           /\ testRecord.results.errorRate = Num(100)
           /\ testRecord.results.averageResponseTime = Num(0)
           /\ testRecord.results.minResponseTime = 0
           /\ testRecord.results.maxResponseTime = 0
           /\ testRecord.results.percentiles = <<0, 0, 0>>
           /\ history.failedSaves = {}
                => (testRecord.status = "completed" /\ pc \in {"saveCompleted", "returned"})

C20_Witness ==
    /\ pc = "returned"
    /\ store.status = "completed"
    /\ config.concurrentUsers = 2
    /\ history.transport = history.invocations
    /\ store.results.totalRequests >= 3

\* The list s with its elements at i and i + 1 exchanged.
SwapAt(s, i) ==
    [k \in 1..Len(s) |-> IF k = i THEN s[i + 1] ELSE IF k = i + 1 THEN s[i] ELSE s[k]]

\* C21: the result does not depend on the order in which the workers recorded
\* their outcomes: exchanging two neighbouring latencies of responseTimes (and so
\* any reordering of them) with the same counts gives the same result.
C21_OrderIndependent ==
    history.statistics
        => \A i \in 1..(Len(responseTimes) - 1) :
              Statistics(SwapAt(responseTimes, i), totalRequests, successfulRequests,
                         failedRequests, config.duration) = Result

C21_Witness ==
    /\ history.statistics
    /\ responseTimes = <<40, 10, 30>>
    /\ Result.failedRequests = 1
    /\ Result.percentiles = <<30, 40, 40>>
    /\ Result.minResponseTime = 10

\* The workers that were started.
Started == {w \in Workers : workers[w].pc # "unstarted"}

BelowMinimum(c) == c.concurrentUsers < MinConcurrentUsers \/ c.duration < MinDuration

C24_StoredResultsRoundTrip ==
    pc = "returned"
        => \A tie \in TieOrders :
              LET read == getTestHistory(AllDocuments, testRecord.projectId, tie)
                  mine == {i \in 1..Len(read) : read[i].id = testRecord.id}
              IN /\ Cardinality(mine) = 1
                 /\ \A i \in mine :
                       /\ read[i].results = Statistics(responseTimes, totalRequests,
                                                       successfulRequests, failedRequests,
                                                       config.duration)
                       /\ read[i].results = testRecord.results
                       /\ read[i].status = "completed"

C24_Witness ==
    /\ pc = "returned"
    /\ store.results.percentiles # <<0, 0, 0>>
    /\ store.results.failedRequests > 0
    /\ store.results.averageResponseTime.den > 1
    /\ Len(getTestHistory(AllDocuments, RunProject, "inserted")) = 2

\* The documents of the collection that have the projectId of the last query.
Eligible == {i \in 1..Len(collection) : collection[i].projectId = found.projectId}

\* C25: getTestHistory(p) returns documents of the collection whose projectId
\* is p and no other, each once, by startedAt from the latest to the earliest,
\* all of them when there are at most 50 and otherwise 50 of them with none
\* left out that started later than one returned; the status plays no part.
C25_HistoryOfProject ==
    found.projectId # "none"
        => LET docs == found.docs
               n == Len(docs)
               returned == {docs[i].id : i \in 1..n}
           IN /\ \A i \in 1..n : docs[i].projectId = found.projectId
              /\ \A i \in 1..n : \E k \in Eligible : collection[k] = docs[i]
              /\ Cardinality(returned) = n
              /\ \A i \in 1..n : \A j \in i..n : docs[i].startedAt >= docs[j].startedAt
              /\ n = IF Cardinality(Eligible) <= 50 THEN Cardinality(Eligible) ELSE 50
              /\ \A k \in Eligible :
                    collection[k].id \notin returned
                        => \A i \in 1..n : docs[i].startedAt >= collection[k].startedAt

C25_Witness ==
    /\ found.projectId = "p1"
    /\ Len(found.docs) = 50
    /\ Cardinality(Eligible) > 50
    /\ {found.docs[i].status : i \in 1..Len(found.docs)} = {"running", "completed", "failed"}
    /\ \E i \in 1..49 : found.docs[i].startedAt = found.docs[i + 1].startedAt
    /\ \E i \in 1..49 : found.docs[i].startedAt > found.docs[i + 1].startedAt

\* C26: the config given to axios has the endpoint's method, url, headers (none
\* when the endpoint has none) and query parameters, and it has a body only when
\* the method is POST, PUT or PATCH, the endpoint's body then; with GET and
\* DELETE it has none, whatever the endpoint has.
C26_BodyOnlyForPostPutPatch ==
    request # NoRequest
        => /\ request.method = endpoint.method
           /\ request.url = endpoint.url
           /\ request.headers = IF endpoint.headers = <<>> THEN {} ELSE endpoint.headers[1]
           /\ request.params = endpoint.queryParams
           /\ request.data # <<>> => endpoint.method \in {"POST", "PUT", "PATCH"}
           /\ request.data \in {<<>>, endpoint.body}
           /\ endpoint.method \in {"GET", "DELETE"} => request.data = <<>>
           /\ endpoint.method \in {"POST", "PUT", "PATCH"} => request.data = endpoint.body

C26_Witness ==
    /\ request # NoRequest
    /\ endpoint.method = "DELETE"
    /\ endpoint.body # <<>>
    /\ endpoint.queryParams # <<>>
    /\ request.data = <<>>
    /\ request.params = endpoint.queryParams

\* The clock moves and nothing of the first call does.
ClockStep ==
    /\ now' = now + TickMs
    /\ UNCHANGED <<pc, config, testRecord, store, endTime, workers, responseTimes,
                   totalRequests, successfulRequests, failedRequests, caught, thrown,
                   history>>

\* The document of the second call in the collection: <<>> while it has none.
OtherStored == SelectSeq(collection, LAMBDA d : d.id = other.testRecord.id)

\* C27: two calls that overlap do not touch each other: every step of the first
\* is a step it can take alone (or a move of the clock), whatever the second
\* does in between; each call counts its own requests, once each, in its own
\* accumulators; each has its own document, written by its own saves only; and
\* each one's stored result and final status are those of its own requests.
C27_RunsIndependent ==
    /\ [][Next \/ ClockStep]_runVars
    /\ [](/\ totalRequests = history.returned + history.raised
          /\ successfulRequests = history.returned
          /\ failedRequests = history.raised
          /\ Len(responseTimes) = history.returned)
    /\ [](/\ other.acc.totalRequests = other.returned + other.raised
          /\ other.acc.successfulRequests = other.returned
          /\ other.acc.failedRequests = other.raised
          /\ Len(other.acc.responseTimes) = other.returned)
    /\ [](/\ store.status # "absent" => store.id = testRecord.id
          /\ other.testRecord.status # "absent" => other.testRecord.id # testRecord.id
          /\ Len(OtherStored) <= 1
          /\ \A i \in 1..Len(collection) : collection[i].id # store.id
          /\ \A i \in 1..Len(EarlierDocuments) : collection[i] = EarlierDocuments[i])
    /\ [](pc = "returned"
            => /\ store.status = "completed"
               /\ store.results = Statistics(responseTimes, totalRequests, successfulRequests,
                                             failedRequests, config.duration)
               /\ store.results.totalRequests = history.invocations)
    /\ [](other.pc = "returned"
            => /\ Len(OtherStored) = 1
               /\ OtherStored[1].status = "completed"
               /\ OtherStored[1].results
                    = Statistics(other.acc.responseTimes, other.acc.totalRequests,
                                 other.acc.successfulRequests, other.acc.failedRequests,
                                 other.config.duration)
               /\ OtherStored[1].results.totalRequests = other.invocations)
    /\ [](pc = "raised" => store.status # "completed")
    /\ [](other.pc = "raised" => \A i \in 1..Len(OtherStored) : OtherStored[i].status # "completed")

C27_Witness ==
    /\ pc = "returned"
    /\ other.pc = "raised"
    /\ other.caught = "SaveCompletedError"
    /\ history.startTime < other.endTime
    /\ other.startTime < endTime
    /\ store.results.totalRequests > 0
    /\ store.results.failedRequests = 0
    /\ other.acc.failedRequests > 0
    /\ Len(OtherStored) = 1
    /\ OtherStored[1].status = "failed"

\* C28: a worker calls executeEndpointRequest only after a loop check that found
\* now < deadline; a worker whose request settled at or after the deadline goes
\* to its pacing sleep and, when it wakes, returns without another request, so
\* each worker has at most one request that settles after the deadline.
C28_NoRequestAfterDeadline ==
    /\ [](\A w \in Workers : workers[w].pc = "request" => workers[w].requestStart < endTime)
    /\ [][\A w \in Workers :
            /\ (workers[w].pc # "request" /\ workers'[w].pc = "request")
                 => (now < endTime' /\ workers'[w].requestStart = now)
            /\ (workers[w].pc = "request" /\ now >= endTime /\ workers'[w] # workers[w])
                 => (workers'[w].pc = "sleep" /\ workers'[w].wakeAt = now + PacingMs)
            /\ (workers[w].pc = "sleep" /\ workers[w].wakeAt >= endTime + PacingMs)
                 => workers'[w] \in {workers[w], Exited}
            /\ workers[w].pc = "done" => workers'[w] = workers[w]]_vars

C28_Witness ==
    /\ \E w \in Workers :
          /\ workers[w].pc = "done"
          /\ w \in history.requested
    /\ \E i \in 1..Len(responseTimes) : responseTimes[i] >= config.duration * MsPerSecond
    /\ history.invocations = config.concurrentUsers
    /\ config.concurrentUsers = 2

C30_ReturnsIffCompleted ==
    /\ pc = "returned" <=> store.status = "completed"
    /\ pc = "returned"
         => /\ store = testRecord
            /\ store.results = Statistics(responseTimes, totalRequests, successfulRequests,
                                          failedRequests, config.duration)
    /\ pc = "raised"
         => /\ store.status \in {"absent", "running", "failed"}
            /\ store.status = "absent" <=> "running" \in history.failedSaves
            /\ store.status = "running" <=> "failed" \in history.failedSaves
            /\ store.status = "failed" => caught # "none"

C30_Witness ==
    /\ pc = "raised"
    /\ store.status = "running"
    /\ history.failedSaves = {"completed", "failed"}
    /\ testRecord.status = "failed"
    /\ testRecord.results.totalRequests > 0

====
